---- MODULE Spec2Model ----
(***************************************************************************)
(* Model of setup.py, the packaging descriptor of the sparkmanager         *)
(* distribution.                                                           *)
(*                                                                         *)
(* The module is straight-line code: an import, two module-level           *)
(* assignments and one call of setuptools.setup whose keyword arguments    *)
(* are evaluated left to right before the call is made.  The state is the  *)
(* module namespace, the callee and keyword arguments evaluated so far,    *)
(* the calls made, and the statements executed.  The one input is the      *)
(* command line the script is run with, which setup() receives.            *)
(***************************************************************************)
EXTENDS Integers, Sequences, FiniteSets, TLC

VARIABLES
    pc,             \* the statement or sub-expression executed next
    ns,             \* module namespace: name -> value, or Unbound
    callee,         \* the callable loaded for the call expression, or Unbound
    kwargs,         \* keyword arguments evaluated so far: keyword -> value
    calls,          \* the invocations made, in order
    trace,          \* the statements executed, in order
    argv,           \* the commands given on the command line
    versionLiteral  \* the string literal assigned to SPARKMANAGER_VERSION

vars == <<pc, ns, callee, kwargs, calls, trace, argv, versionLiteral>>

-----------------------------------------------------------------------------
(* Bounds *)

MaxArgs == 2
MaxVersionLen == 3

Commands == {"build", "sdist", "install", "test"}

RECURSIVE SeqsUpTo(_, _)
SeqsUpTo(S, n) ==
    IF n = 0 THEN {<<>>}
    ELSE LET shorter == SeqsUpTo(S, n - 1)
         IN  shorter \cup {Append(s, c) : s \in shorter, c \in S}

Argvs == SeqsUpTo(Commands, MaxArgs)

VersionChars == {"0", "2", ".", "{", "}"}

RECURSIVE StringsUpTo(_, _)
StringsUpTo(S, n) ==
    IF n = 0 THEN {""}
    ELSE LET shorter == StringsUpTo(S, n - 1)
         IN  shorter \cup {s \o c : s \in shorter, c \in S}

Versions == StringsUpTo(VersionChars, MaxVersionLen)

-----------------------------------------------------------------------------
(* Values *)

Unbound == "<unbound>"
FormatError == "<error>"
SetuptoolsSetup == "setuptools.setup"

Names == {"setup", "SPARKMANAGER_NAME", "SPARKMANAGER_VERSION"}

Range(s) == {s[i] : i \in DOMAIN s}

CharAt(s, i) == IF i \in 1..Len(s) THEN SubSeq(s, i, i) ELSE ""

(* str.format with positional arguments and automatic numbering: "{}" is  *)
(* replaced by the next argument, "{{" and "}}" are escaped braces, every  *)
(* other character is copied.  The arguments are inserted, not rescanned.  *)
(* Any other use of a brace raises; the result is then FormatError.        *)
RECURSIVE FormatFrom(_, _, _, _, _)
FormatFrom(t, args, i, k, out) ==
    IF i > Len(t) THEN out
    ELSE LET c == CharAt(t, i)
             d == CharAt(t, i + 1)
         IN  CASE c = "{" /\ d = "{" -> FormatFrom(t, args, i + 2, k, out \o "{")
               [] c = "{" /\ d = "}" ->
                    IF k + 1 \in DOMAIN args
                    THEN FormatFrom(t, args, i + 2, k + 1, out \o args[k + 1])
                    ELSE FormatError
               [] c = "{" /\ d \notin {"{", "}"} -> FormatError
               [] c = "}" /\ d = "}" -> FormatFrom(t, args, i + 2, k, out \o "}")
               [] c = "}" /\ d # "}" -> FormatError
               [] OTHER -> FormatFrom(t, args, i + 1, k, out \o c)

Format(t, args) == FormatFrom(t, args, 1, 0, "")

-----------------------------------------------------------------------------
(* The literals and expressions of the descriptor *)

NameLiteral == "sparkmanager"

(* Mutation: the version literal of another release. *)
VersionLiteralBumped == "0.3"

VersionLiteral == "0.2"

NameArg(n) == n["SPARKMANAGER_NAME"]

VersionArg(n) == n["SPARKMANAGER_VERSION"]

Description == "A pyspark management framework"

Author == "Matthias Wolf"

AuthorEmail == "matthias.wolf@epfl.ch"

License == "MIT"

KeywordsArg == <<"apache-spark">>

Url == "https://github.com/matz-e/sparkmanager"

DownloadUrlTemplate == "https://github.com/matz-e/sparkmanager/archive/{}.tar.gz"

(* Mutation: the archive address written out instead of formatted. *)
DownloadUrlHardcoded(n) == "https://github.com/matz-e/sparkmanager/archive/0.2.tar.gz"

DownloadUrl(n) == Format(DownloadUrlTemplate, <<n["SPARKMANAGER_VERSION"]>>)

Classifiers ==
    << "Development Status :: 3 - Alpha",
       "License :: OSI Approved :: MIT License",
       "Programming Language :: Python :: 2",
       "Programming Language :: Python :: 3",
       "Topic :: Software Development :: Libraries" >>

(* Mutation: a sub-package listed beside the package. *)
PackagesWithSub == <<"sparkmanager", "sparkmanager.tests">>

Packages == <<"sparkmanager">>

(* Mutation: a test tool listed as a runtime requirement. *)
InstallRequiresExtra == <<"pyspark", "six", "pytest">>

InstallRequires == <<"pyspark", "six">>

SetupRequires == <<"pytest-runner">>

(* Mutation: a runtime requirement repeated as a test requirement. *)
TestsRequireOverlap == <<"pytest", "pytest-cov", "six">>

TestsRequire == <<"pytest", "pytest-cov">>

(* Mutation: a second script installed. *)
ScriptsTwo == <<"scripts/sm_cluster", "scripts/sm_run">>

Scripts == <<"scripts/sm_cluster">>

(* The keywords of the call, in the order they are written and evaluated. *)
KeywordOrder ==
    << "name", "version", "description", "author", "author_email", "license",
       "keywords", "url", "download_url", "classifiers", "packages",
       "install_requires", "setup_requires", "tests_require", "scripts" >>

KeywordValue(k, n) ==
    CASE k = "name"             -> NameArg(n)
      [] k = "version"          -> VersionArg(n)
      [] k = "description"      -> Description
      [] k = "author"           -> Author
      [] k = "author_email"     -> AuthorEmail
      [] k = "license"          -> License
      [] k = "keywords"         -> KeywordsArg
      [] k = "url"              -> Url
      [] k = "download_url"     -> DownloadUrl(n)
      [] k = "classifiers"      -> Classifiers
      [] k = "packages"         -> Packages
      [] k = "install_requires" -> InstallRequires
      [] k = "setup_requires"   -> SetupRequires
      [] k = "tests_require"    -> TestsRequire
      [] k = "scripts"          -> Scripts

-----------------------------------------------------------------------------
(* State machine *)

InitCommon ==
    /\ pc = "import"
    /\ ns = [x \in Names |-> Unbound]
    /\ callee = Unbound
    /\ kwargs = <<>>
    /\ calls = <<>>
    /\ trace = <<>>
    /\ argv \in Argvs

Init ==
    /\ InitCommon
    /\ versionLiteral = VersionLiteral

(* from setuptools import setup *)
Import ==
    /\ pc = "import"
    /\ ns' = [ns EXCEPT !["setup"] = SetuptoolsSetup]
    /\ trace' = Append(trace, "import setup")
    /\ pc' = "def_name"
    /\ UNCHANGED <<callee, kwargs, calls, argv, versionLiteral>>

(* SPARKMANAGER_NAME = 'sparkmanager' *)
DefineName ==
    /\ pc = "def_name"
    /\ ns' = [ns EXCEPT !["SPARKMANAGER_NAME"] = NameLiteral]
    /\ trace' = Append(trace, "assign SPARKMANAGER_NAME")
    /\ pc' = "def_version"
    /\ UNCHANGED <<callee, kwargs, calls, argv, versionLiteral>>

(* SPARKMANAGER_VERSION = '0.2' *)
DefineVersion ==
    /\ pc = "def_version"
    /\ ns' = [ns EXCEPT !["SPARKMANAGER_VERSION"] = versionLiteral]
    /\ trace' = Append(trace, "assign SPARKMANAGER_VERSION")
    /\ pc' = "load_callee"
    /\ UNCHANGED <<callee, kwargs, calls, argv, versionLiteral>>

(* setup(...): the callee is looked up before the arguments are evaluated. *)
LoadCallee ==
    /\ pc = "load_callee"
    /\ ns["setup"] # Unbound
    /\ callee' = ns["setup"]
    /\ pc' = "eval_args"
    /\ UNCHANGED <<ns, kwargs, calls, trace, argv, versionLiteral>>

(* One keyword argument is evaluated in the module namespace. *)
EvalKeyword ==
    /\ pc = "eval_args"
    /\ LET i == Cardinality(DOMAIN kwargs) + 1
           k == KeywordOrder[i]
       IN  /\ kwargs' = kwargs @@ (k :> KeywordValue(k, ns))
           /\ pc' = IF i = Len(KeywordOrder) THEN "call" ELSE "eval_args"
    /\ UNCHANGED <<ns, callee, calls, trace, argv, versionLiteral>>

(* Mutation: the call statement duplicated. *)
CallSetupTwice ==
    /\ pc = "call"
    /\ LET c == [callee |-> callee, kwargs |-> kwargs, script_args |-> argv]
       IN  calls' = Append(Append(calls, c), c)
    /\ trace' = Append(Append(trace, "call setup"), "call setup")
    /\ pc' = "done"
    /\ UNCHANGED <<ns, callee, kwargs, argv, versionLiteral>>

(* The call itself: setup receives the keyword arguments, and the command  *)
(* line as its script arguments.  It is the last statement of the module.  *)
CallSetup ==
    /\ pc = "call"
    /\ calls' = Append(calls, [callee |-> callee, kwargs |-> kwargs,
                               script_args |-> argv])
    /\ trace' = Append(trace, "call setup")
    /\ pc' = "done"
    /\ UNCHANGED <<ns, callee, kwargs, argv, versionLiteral>>

Next ==
    \/ Import
    \/ DefineName
    \/ DefineVersion
    \/ LoadCallee
    \/ EvalKeyword
    \/ CallSetup

Spec == Init /\ [][Next]_vars

(* The descriptor with the version literal drawn from a bounded set of     *)
(* strings: the download_url expression as a function of the version.      *)
InitFormat ==
    /\ InitCommon
    /\ versionLiteral \in Versions

SpecFormat == InitFormat /\ [][Next]_vars

-----------------------------------------------------------------------------
(* Properties *)

(* C1: the distribution is declared with name 'sparkmanager' and version   *)
(* '0.2'.  There is at most one setup() call and one on termination; its   *)
(* name and version arguments are the values of SPARKMANAGER_NAME and      *)
(* SPARKMANAGER_VERSION, and each constant, once bound, only ever holds    *)
(* the value it was defined with.                                          *)
C1_NameAndVersion ==
    /\ ns["SPARKMANAGER_NAME"] \in {Unbound, "sparkmanager"}
    /\ ns["SPARKMANAGER_VERSION"] \in {Unbound, "0.2"}
    /\ Len(calls) <= 1
    /\ pc = "done" => Len(calls) = 1
    /\ \A i \in DOMAIN calls :
          /\ calls[i].kwargs["name"] = "sparkmanager"
          /\ calls[i].kwargs["version"] = "0.2"
          /\ calls[i].kwargs["name"] = ns["SPARKMANAGER_NAME"]
          /\ calls[i].kwargs["version"] = ns["SPARKMANAGER_VERSION"]

C1_Witness ==
    /\ pc = "done"
    /\ Len(calls) = 1
    /\ calls[1].callee = SetuptoolsSetup
    /\ calls[1].kwargs["name"] = "sparkmanager"
    /\ calls[1].kwargs["version"] = "0.2"

(* C2: the runtime requirements passed to setup() are exactly pyspark and  *)
(* six, each listed once, and nothing else.                                *)
C2_InstallRequires ==
    /\ pc = "done" => calls # <<>>
    /\ \A i \in DOMAIN calls :
          LET req == calls[i].kwargs["install_requires"]
          IN  /\ Range(req) = {"pyspark", "six"}
              /\ Len(req) = 2

C2_Witness ==
    /\ pc = "done"
    /\ calls # <<>>
    /\ calls[1].kwargs["install_requires"] = <<"pyspark", "six">>

(* C3: exactly one executable is declared: the scripts list is the single  *)
(* element 'scripts/sm_cluster', and no entry_points keyword is passed.    *)
C3_OneScript ==
    /\ pc = "done" => calls # <<>>
    /\ \A i \in DOMAIN calls :
          /\ Len(calls[i].kwargs["scripts"]) = 1
          /\ calls[i].kwargs["scripts"][1] = "scripts/sm_cluster"
          /\ "entry_points" \notin DOMAIN calls[i].kwargs

C3_Witness ==
    /\ pc = "done"
    /\ calls # <<>>
    /\ "scripts" \in DOMAIN calls[1].kwargs
    /\ "scripts/sm_cluster" \in Range(calls[1].kwargs["scripts"])

(* C4: the test requirements passed to setup() are exactly pytest and      *)
(* pytest-cov, and none of them is also a runtime requirement.             *)
C4_TestsRequire ==
    /\ pc = "done" => calls # <<>>
    /\ \A i \in DOMAIN calls :
          LET tests == Range(calls[i].kwargs["tests_require"])
              runtime == Range(calls[i].kwargs["install_requires"])
          IN  /\ tests = {"pytest", "pytest-cov"}
              /\ tests \cap runtime = {}

C4_Witness ==
    /\ pc = "done"
    /\ calls # <<>>
    /\ "pytest-cov" \in Range(calls[1].kwargs["tests_require"])
    /\ "six" \in Range(calls[1].kwargs["install_requires"])

(* C5: the module makes at most one setup() call, makes it only once both  *)
(* constants are bound, and has made exactly one when it terminates; the   *)
(* statements it has then executed are the import, the two assignments     *)
(* and the call, in that order, and nothing else.                          *)
C5_OnlyOneCall ==
    /\ Len(calls) <= 1
    /\ calls # <<>> =>
          /\ ns["SPARKMANAGER_NAME"] # Unbound
          /\ ns["SPARKMANAGER_VERSION"] # Unbound
          /\ calls[1].callee = SetuptoolsSetup
    /\ pc = "done" =>
          /\ Len(calls) = 1
          /\ trace = << "import setup", "assign SPARKMANAGER_NAME",
                        "assign SPARKMANAGER_VERSION", "call setup" >>

C5_Witness ==
    /\ pc = "done"
    /\ Len(calls) = 1
    /\ Len(trace) = 4
    /\ trace[4] = "call setup"

(* C6: whatever the version constant is, the download_url passed to        *)
(* setup() is the archive prefix, then the version passed, then '.tar.gz'; *)
(* for version '0.2' it is .../archive/0.2.tar.gz.                         *)
C6_DownloadUrl ==
    /\ pc = "done" => calls # <<>>
    /\ \A i \in DOMAIN calls :
          LET d == calls[i].kwargs
          IN  /\ d["download_url"] =
                    "https://github.com/matz-e/sparkmanager/archive/"
                        \o d["version"] \o ".tar.gz"
              /\ d["version"] = "0.2" =>
                    d["download_url"] =
                        "https://github.com/matz-e/sparkmanager/archive/0.2.tar.gz"

C6_Witness ==
    /\ pc = "done"
    /\ calls # <<>>
    /\ calls[1].kwargs["version"] = "0.2"
    /\ calls[1].kwargs["download_url"] =
          "https://github.com/matz-e/sparkmanager/archive/0.2.tar.gz"

(* C7: the packages passed to setup() are the single package               *)
(* 'sparkmanager', which is also the distribution name and the value of    *)
(* SPARKMANAGER_NAME.                                                      *)
C7_Packages ==
    /\ pc = "done" => calls # <<>>
    /\ \A i \in DOMAIN calls :
          LET d == calls[i].kwargs
          IN  /\ d["packages"] = <<"sparkmanager">>
              /\ d["packages"][1] = d["name"]
              /\ d["packages"][1] = ns["SPARKMANAGER_NAME"]

C7_Witness ==
    /\ pc = "done"
    /\ calls # <<>>
    /\ Len(calls[1].kwargs["packages"]) = 1
    /\ calls[1].kwargs["packages"][1] = calls[1].kwargs["name"]

====
